---- MODULE Spec2Model ----
(***************************************************************************)
(* State-machine model of the portfolio chat backend: the two POST         *)
(* endpoints (create_chat, create_message), the ChatHandler policy         *)
(* (handle_chat), the vector-search post-processing (MilvusDB.search) and  *)
(* the request-scoped database session (get_db_session).                   *)
(*                                                                         *)
(* Text is a sequence of one-character strings.  A fixed text of           *)
(* services/chat/config.py is written as a one-element sequence holding    *)
(* its name; none of these names is a character of the sentinel.           *)
(***************************************************************************)
EXTENDS Integers, Sequences, FiniteSets, TLC

\* ------------------------------------------------------------------ bounds
MaxTurns == 2
MaxChatRequests == 1

Turns == 1..MaxTurns
ChatRequests == 1..MaxChatRequests
ChatIds == {"c1", "c2"}

\* --------------------------------------------- services/chat/config.py
messages_limit == 30
off_topic_count_limit == 3
limit_length_message == <<"limit_length_message">>
limit_out_of_topic_message == <<"limit_out_of_topic_message">>
general_context == <<"general_context">>
ai_first_message == <<"ai_first_message">>

\* prompt.format(context=...): the template ends with "Context: {context}"
prompt(context) == <<"prompt">> \o context

\* off_topic_response.format(off_topic_count=...): the count is interpolated
\* between two fixed pieces of text
off_topic_response(off_topic_count) ==
    <<"off_topic_response_1", ToString(off_topic_count), "off_topic_response_2">>

\* ------------------------------------------------------------ vdb/configs.py
topk == 5
\* distances are in tenths: 17 is the threshold 1.7
threshold == 17

\* ------------------------------------------------------- str operations
\* str.lower() on the characters the model uses
LowerChar(c) ==
    CASE c = "N" -> "n"
      [] c = "U" -> "u"
      [] c = "L" -> "l"
      [] c = "A" -> "a"
      [] OTHER -> c

Lower(s) == [i \in DOMAIN s |-> LowerChar(s[i])]

\* Python's `sub in s` for strings
Contains(sub, s) ==
    \E i \in 0..(Len(s) - Len(sub)) : SubSeq(s, i + 1, i + Len(sub)) = sub

\* the literal "null" of chat_handler.py line 97
sentinel == <<"n", "u", "l", "l">>

\* text.replace("\n", " ") of Embedding.__init__
ReplaceNewlines(text) == [i \in DOMAIN text |-> IF text[i] = "\n" THEN " " ELSE text[i]]

\* ----------------------------------------------------- MilvusDB.search
\* sorted(query_result[0], key=distance): a stable insertion sort
RECURSIVE InsertByDistance(_, _)
InsertByDistance(sorted, hit) ==
    IF sorted = <<>> THEN <<hit>>
    ELSE IF sorted[Len(sorted)].distance <= hit.distance
         THEN Append(sorted, hit)
         ELSE Append(InsertByDistance(SubSeq(sorted, 1, Len(sorted) - 1), hit),
                     sorted[Len(sorted)])

RECURSIVE SortedByDistance(_)
SortedByDistance(hits) ==
    IF hits = <<>> THEN <<>>
    ELSE InsertByDistance(SortedByDistance(SubSeq(hits, 1, Len(hits) - 1)), hits[Len(hits)])

\* variant: a hit at the threshold is kept
RECURSIVE ConcatUpTo(_, _)
ConcatUpTo(hits, limit) ==
    IF hits = <<>> THEN <<>>
    ELSE (IF hits[1].distance <= limit THEN hits[1].text \o <<"\n">> ELSE <<>>)
         \o ConcatUpTo(Tail(hits), limit)

\* the loop of lines 96-99 over the sorted hits
RECURSIVE ConcatBelow(_, _)
ConcatBelow(hits, limit) ==
    IF hits = <<>> THEN <<>>
    ELSE (IF hits[1].distance < limit THEN hits[1].text \o <<"\n">> ELSE <<>>)
         \o ConcatBelow(Tail(hits), limit)

\* variant: the hits are taken in the order the client answered them
MilvusSearchUnsorted(hits, limit) == ConcatBelow(hits, limit)

\* MilvusDB.search, from the hits of the first query vector to the string
MilvusSearch(hits, limit) == ConcatBelow(SortedByDistance(hits), limit)

\* --------------------------------------------------------- message roles
HUMAN == "human"
AI == "ai"
SYSTEM == "system"

\* variant: a system message is formatted as a human one
FormatMessageSystemAsHuman(message) ==
    CASE message.message_by = HUMAN -> [type |-> "HumanMessage", content |-> message.message_text]
      [] message.message_by = AI -> [type |-> "AIMessage", content |-> message.message_text]
      [] message.message_by = SYSTEM -> [type |-> "HumanMessage", content |-> message.message_text]
      [] OTHER -> [type |-> "ValueError", content |-> message.message_text]

\* variant: a message of any other origin is formatted as a human one
FormatMessageLenient(message) ==
    CASE message.message_by = AI -> [type |-> "AIMessage", content |-> message.message_text]
      [] message.message_by = SYSTEM -> [type |-> "SystemMessage", content |-> message.message_text]
      [] OTHER -> [type |-> "HumanMessage", content |-> message.message_text]

\* ChatHandler._format_message; the raise of line 38 is the type "ValueError"
FormatMessage(message) ==
    CASE message.message_by = HUMAN -> [type |-> "HumanMessage", content |-> message.message_text]
      [] message.message_by = AI -> [type |-> "AIMessage", content |-> message.message_text]
      [] message.message_by = SYSTEM -> [type |-> "SystemMessage", content |-> message.message_text]
      [] OTHER -> [type |-> "ValueError", content |-> message.message_text]

\* variant: the built prompt is put in front of the conversation
UpdateConversationPromptFirst(old_conversation, human_query, system_message) ==
    LET appended == Append(old_conversation, human_query)
    IN  <<[type |-> "SystemMessage", content |-> system_message]>>
        \o [i \in DOMAIN appended |-> FormatMessage(appended[i])]

\* ChatHandler._update_conversation: the list built from the conversation
\* after the human query has been appended to it
UpdateConversation(old_conversation, human_query, system_message) ==
    LET appended == Append(old_conversation, human_query)
    IN  Append([i \in DOMAIN appended |-> FormatMessage(appended[i])],
               [type |-> "SystemMessage", content |-> system_message])

\* ------------------------------------------------------ input domains
\* message_text of the posted human message
HumanTexts == {<<>>, <<"h", "\n", "i">>}

\* what MilvusClient.search can answer (at most `limit` hits)
HitLists ==
    { <<>>,
      << [distance |-> 9, text |-> <<"c">>],
         [distance |-> 2, text |-> <<"a">>],
         [distance |-> 17, text |-> <<"d">>] >>,
      << [distance |-> 9, text |-> <<"c">>],
         [distance |-> 2, text |-> <<"a">>],
         [distance |-> 16, text |-> <<"b">>] >>,
      << [distance |-> 17, text |-> <<"d">>],
         [distance |-> 20, text |-> <<"e">>] >> }

\* what the chat model can answer
GenOutputs ==
    { <<>>,
      <<"N", "u", "l", "l">>,
      <<"a", "N", "U", "L", "l">>,
      <<"n", "u", "l">> }

\* off_topic_response_count of the chat row present at the start, and the
\* number of create_chat requests that have seeded it
InitCounts == {0, 2, 3, 4}
InitSeeds == {1, 30, 31}

\* ------------------------------------------------------------------ state
VARIABLES
    chats,            \* committed rows of table chats: chat_id -> row
    messages,         \* committed rows of table messages, in insertion order
    now,              \* the clock read by datetime.utcnow
    next_id,          \* the next value uuid4 hands out
    pc,               \* create_message: position of each request
    human_message,    \* create_message: the posted MessageDTO
    chat,             \* create_message: result of get_single_row (<<>> is None)
    conversation,     \* create_message: conversation_dto
    query_embedding,  \* handle_chat: the embedding (<<>> before it exists)
    query_result,     \* MilvusDB.search: the hits the client answered (<<>> before)
    system_message,   \* handle_chat: the built prompt (<<>> before it exists)
    calls,            \* handle_chat: upstream calls issued, in order
    generated,        \* handle_chat: response.content (<<>> before it exists)
    result,           \* what handle_chat returned (<<>> before it returns)
    error,            \* the exception travelling up the request (<<>> if none)
    session,          \* create_message: statements executed, not yet committed
    response,         \* create_message: what the client received (<<>> so far)
    cpc,              \* create_chat: position of each request
    chat_dto,         \* create_chat: the posted ChatDTO
    csession          \* create_chat: statements executed, not yet committed

dbvars == <<chats, messages, now, next_id>>
turnvars == <<pc, human_message, chat, conversation, query_embedding,
              query_result, system_message, calls, generated, result, error, session, response>>
chatreqvars == <<cpc, chat_dto, csession>>
vars == <<dbvars, turnvars, chatreqvars>>

\* ------------------------------------------------------------ persistence
\* db/models: a row of table chats, a row of table messages
ChatModel(dto) ==
    [off_topic_response_count |-> dto.off_topic_response_count,
     created_at |-> dto.created_at]

MessageModel(dto) ==
    [message_id |-> dto.message_id, chat_id |-> dto.chat_id,
     message_text |-> dto.message_text, message_by |-> dto.message_by,
     created_at |-> dto.created_at]

\* web/api/message/schema.py: MessageDTO with its two default factories
MessageDTO(message_id, chat_id, message_text, message_by, created_at) ==
    [message_id |-> message_id, chat_id |-> chat_id,
     message_text |-> message_text, message_by |-> message_by,
     created_at |-> created_at]

\* rows of table chats a session sees: the committed ones and its own
RECURSIVE VisibleChats(_, _)
VisibleChats(committed, writes) ==
    IF writes = <<>> THEN committed
    ELSE LET w == writes[1]
             after == IF w.table # "chats" THEN committed
                      ELSE IF w.on_conflict = "update"
                           THEN (w.chat_id :> w.row) @@ committed
                           ELSE committed @@ (w.chat_id :> w.row)
         IN  VisibleChats(after, Tail(writes))

\* BaseDAO.add_single_on_conflict_do_nothing on table chats
AddSingleOnConflictDoNothing(writes, chat_id, row) ==
    IF chat_id \in DOMAIN VisibleChats(chats, writes)
    THEN writes
    ELSE Append(writes, [table |-> "chats", on_conflict |-> "nothing",
                         chat_id |-> chat_id, row |-> row])

\* BaseDAO.add_single_on_conflict_do_update on table chats, conflict_column
\* chat_id: every column of the row is written
AddSingleOnConflictDoUpdate(writes, chat_id, row) ==
    Append(writes, [table |-> "chats", on_conflict |-> "update",
                    chat_id |-> chat_id, row |-> row])

\* variant: the rows are inserted without looking for a conflict
RECURSIVE AddManyIgnoringConflict(_, _)
AddManyIgnoringConflict(writes, rows) ==
    IF rows = <<>> THEN writes
    ELSE AddManyIgnoringConflict(Append(writes, [table |-> "messages", row |-> rows[1]]),
                                 Tail(rows))

\* BaseDAO.add_many_on_conflict_do_nothing on table messages
RECURSIVE AddManyOnConflictDoNothing(_, _)
AddManyOnConflictDoNothing(writes, rows) ==
    IF rows = <<>> THEN writes
    ELSE LET taken == {messages[i].message_id : i \in DOMAIN messages}
                      \cup {writes[i].row.message_id :
                              i \in {j \in DOMAIN writes : writes[j].table = "messages"}}
             after == IF rows[1].message_id \in taken THEN writes
                      ELSE Append(writes, [table |-> "messages", row |-> rows[1]])
         IN  AddManyOnConflictDoNothing(after, Tail(rows))

\* session.commit(): the executed statements become visible
RECURSIVE CommittedMessages(_, _)
CommittedMessages(committed, writes) ==
    IF writes = <<>> THEN committed
    ELSE CommittedMessages(IF writes[1].table = "messages"
                           THEN Append(committed, writes[1].row) ELSE committed,
                           Tail(writes))

\* BaseDAO.get_single_row(ChatModel, chat_id): <<>> is None
GetSingleRow(chat_id) ==
    IF chat_id \in DOMAIN chats THEN <<chats[chat_id]>> ELSE <<>>

\* ORDER BY created_at: every order of the rows that is ascending in created_at
RECURSIVE OrderedByCreatedAt(_)
OrderedByCreatedAt(rows) ==
    IF rows = {} THEN {<<>>}
    ELSE LET firsts == {m \in rows : \A o \in rows : m.created_at <= o.created_at}
         IN  UNION {{<<m>> \o rest : rest \in OrderedByCreatedAt(rows \ {m})} : m \in firsts}

\* MessageDAO.get_many_rows(MessageModel, chat_id, message_by)
GetManyRows(chat_id, message_by) ==
    OrderedByCreatedAt({messages[i] : i \in {j \in DOMAIN messages :
                            /\ messages[j].chat_id = chat_id
                            /\ messages[j].message_by \in message_by}})

\* ------------------------------------------------------------------- Init
\* the rows the k-th create_chat request on a chat leaves behind
SeedMessages(chat_id, k) ==
    << MessageDTO(2 * k - 1, chat_id, prompt(general_context), SYSTEM, 2 * k - 1),
       MessageDTO(2 * k, chat_id, ai_first_message, AI, 2 * k) >>

RECURSIVE SeededMessages(_, _)
SeededMessages(chat_id, k) ==
    IF k = 0 THEN <<>> ELSE SeededMessages(chat_id, k - 1) \o SeedMessages(chat_id, k)

\* chat c1 was created with the given counter and seeded the given number of
\* times; no request is in progress
InitWith(counts, seedings) ==
    /\ \E count \in counts, seeds \in seedings :
         /\ chats = ("c1" :> [off_topic_response_count |-> count, created_at |-> 0])
         /\ messages = SeededMessages("c1", seeds)
         /\ now = 2 * seeds
         /\ next_id = 2 * seeds + 1
    /\ pc = [t \in Turns |-> "idle"]
    /\ human_message = [t \in Turns |-> <<>>]
    /\ chat = [t \in Turns |-> <<>>]
    /\ conversation = [t \in Turns |-> <<>>]
    /\ query_embedding = [t \in Turns |-> <<>>]
    /\ query_result = [t \in Turns |-> <<>>]
    /\ system_message = [t \in Turns |-> <<>>]
    /\ calls = [t \in Turns |-> <<>>]
    /\ generated = [t \in Turns |-> <<>>]
    /\ result = [t \in Turns |-> <<>>]
    /\ response = [t \in Turns |-> <<>>]
    /\ error = [t \in Turns |-> <<>>]
    /\ session = [t \in Turns |-> <<>>]
    /\ cpc = [r \in ChatRequests |-> "idle"]
    /\ chat_dto = [r \in ChatRequests |-> <<>>]
    /\ csession = [r \in ChatRequests |-> <<>>]

Init == InitWith(InitCounts, InitSeeds)

\* a chat that is not yet terminated
InitOpen == InitWith({0, 2}, {1})

\* ------------------------------------------------- upstream services
\* OpenAIEmbeddings.embed_query: the vector is a function of the text alone
EmbedQuery(text) == [embedding_of |-> text]

\* variant: the system message is left out when the AI text is the warning
HandleChatResultWithoutPromptOnRefusal(system, ai_message, count) ==
    [system_message |-> IF Len(ai_message) = 3 /\ ai_message[1] = "off_topic_response_1"
                        THEN <<>> ELSE system,
     ai_message |-> ai_message,
     off_topic_response_count |-> count]

\* the dict handle_chat returns; system_message is <<>> for None, <<text>> else
HandleChatResult(system, ai_message, count) ==
    [system_message |-> system, ai_message |-> ai_message,
     off_topic_response_count |-> count]

\* variant: the sentinel is looked for without lowering the text
IsRefusalCaseSensitive(ai_message) == Contains(sentinel, ai_message)

\* variant: an empty answer counts as a refusal too
IsRefusalOrEmpty(ai_message) ==
    ai_message = <<>> \/ Contains(sentinel, Lower(ai_message))

\* chat_handler.py lines 97-100: refusal detection on the generation output
IsRefusal(ai_message) == Contains(sentinel, Lower(ai_message))

\* variant: the off-topic check is made before the length check
HandleChatBranchOffTopicFirst(history, off_topic_response_count) ==
    IF off_topic_response_count >= off_topic_count_limit THEN "off_topic"
    ELSE IF Len(history) > messages_limit THEN "length"
    ELSE "generate"

\* variant: a counter equal to the limit still generates
HandleChatBranchInclusive(history, off_topic_response_count) ==
    IF Len(history) > messages_limit THEN "length"
    ELSE IF off_topic_response_count <= off_topic_count_limit THEN "generate"
    ELSE "off_topic"

\* variant: a history of exactly messages_limit messages is length-limited
HandleChatBranchLengthInclusive(history, off_topic_response_count) ==
    IF Len(history) >= messages_limit THEN "length"
    ELSE IF off_topic_response_count < off_topic_count_limit THEN "generate"
    ELSE "off_topic"

\* chat_handler.py lines 67, 72, 102: which of the three branches is taken
HandleChatBranch(history, off_topic_response_count) ==
    IF Len(history) > messages_limit THEN "length"
    ELSE IF off_topic_response_count < off_topic_count_limit THEN "generate"
    ELSE "off_topic"

\* views.py line 127, `ai_response.system_message`: ai_response is the dict
\* built at chat_handler.py lines 111-115, and a dict has no attributes
ResultAttribute(ai_response, name) == [raised |-> "AttributeError", value |-> <<>>]

\* ------------------------------------------------ POST /message, step by step
\* the request arrives: FastAPI parses the body and opens the session
\* (request slots are taken in order)
CreateMessage(t) ==
    /\ pc[t] = "idle"
    /\ \A u \in Turns : u < t => pc[u] # "idle"
    /\ \E chat_id \in ChatIds, text \in HumanTexts :
         human_message' = [human_message EXCEPT ![t] =
                              <<MessageDTO(next_id, chat_id, text, HUMAN, now)>>]
    /\ next_id' = next_id + 1
    /\ pc' = [pc EXCEPT ![t] = "get_chat"]
    /\ UNCHANGED <<chats, messages, now, chat, conversation, query_embedding, query_result,
                   system_message, calls, generated, result, error, session,
                   response, chatreqvars>>

\* variant: the human message is stored before the chat is looked up
CreateMessageGetChatAddFirst(t) ==
    /\ pc[t] = "get_chat"
    /\ chat' = [chat EXCEPT ![t] = GetSingleRow(human_message[t][1].chat_id)]
    /\ session' = [session EXCEPT ![t] =
           AddManyOnConflictDoNothing(@, <<MessageModel(human_message[t][1])>>)]
    /\ pc' = [pc EXCEPT ![t] = "get_conversation"]
    /\ UNCHANGED <<dbvars, human_message, conversation, query_embedding, query_result,
                   system_message, calls, generated, result, error,
                   response, chatreqvars>>

\* views.py line 108
CreateMessageGetChat(t) ==
    /\ pc[t] = "get_chat"
    /\ chat' = [chat EXCEPT ![t] = GetSingleRow(human_message[t][1].chat_id)]
    /\ pc' = [pc EXCEPT ![t] = "get_conversation"]
    /\ UNCHANGED <<dbvars, human_message, conversation, query_embedding, query_result,
                   system_message, calls, generated, result, error, session,
                   response, chatreqvars>>

\* views.py lines 111-118
CreateMessageGetConversation(t) ==
    /\ pc[t] = "get_conversation"
    /\ \E rows \in GetManyRows(human_message[t][1].chat_id, {HUMAN, AI}) :
         conversation' = [conversation EXCEPT ![t] = rows]
    /\ pc' = [pc EXCEPT ![t] = "handle_chat"]
    /\ UNCHANGED <<dbvars, human_message, chat, query_embedding, query_result,
                   system_message, calls, generated, result, error, session,
                   response, chatreqvars>>

\* views.py lines 119-123 and chat_handler.py lines 66-74, 101-105: the
\* argument chat.off_topic_response_count is evaluated (chat may be None), then
\* handle_chat runs up to its first upstream call or to its return
HandleChat(t) ==
    /\ pc[t] = "handle_chat"
    /\ IF chat[t] = <<>>
       THEN /\ error' = [error EXCEPT ![t] = <<"AttributeError">>]
            /\ pc' = [pc EXCEPT ![t] = "raise"]
            /\ UNCHANGED <<calls, result>>
       ELSE LET off_topic_response_count == chat[t][1].off_topic_response_count
                branch == HandleChatBranch(conversation[t], off_topic_response_count)
            IN  CASE branch = "length" ->
                     /\ result' = [result EXCEPT ![t] =
                            <<HandleChatResult(<<>>, limit_length_message,
                                               off_topic_response_count)>>]
                     /\ pc' = [pc EXCEPT ![t] = "returned"]
                     /\ UNCHANGED <<calls, error>>
                  [] branch = "generate" ->
                     /\ calls' = [calls EXCEPT ![t] = Append(@,
                            [service |-> "embed",
                             input |-> ReplaceNewlines(human_message[t][1].message_text)])]
                     /\ pc' = [pc EXCEPT ![t] = "embed"]
                     /\ UNCHANGED <<result, error>>
                  [] OTHER ->
                     /\ result' = [result EXCEPT ![t] =
                            <<HandleChatResult(<<>>, limit_out_of_topic_message,
                                               off_topic_response_count)>>]
                     /\ pc' = [pc EXCEPT ![t] = "returned"]
                     /\ UNCHANGED <<calls, error>>
    /\ UNCHANGED <<dbvars, human_message, chat, conversation, query_embedding, query_result,
                   system_message, generated, session, response, chatreqvars>>

\* variant: the text_embedding property is read a second time, which asks the
\* embedding provider again
EmbedQueryReturnsAgain(t) ==
    /\ pc[t] = "embed"
    /\ LET vector == EmbedQuery(calls[t][Len(calls[t])].input)
       IN  IF Len(calls[t]) = 1
           THEN /\ calls' = [calls EXCEPT ![t] = Append(@, calls[t][1])]
                /\ UNCHANGED <<query_embedding, pc>>
           ELSE /\ query_embedding' = [query_embedding EXCEPT ![t] = <<vector>>]
                /\ calls' = [calls EXCEPT ![t] = Append(@,
                                 [service |-> "search", input |-> vector])]
                /\ pc' = [pc EXCEPT ![t] = "search"]
    /\ UNCHANGED <<dbvars, human_message, chat, conversation, query_result,
                   system_message, generated, result, error, session, response,
                   chatreqvars>>

\* chat_handler.py lines 74-82: embed_query answers, MilvusDB.search is called
EmbedQueryReturns(t) ==
    /\ pc[t] = "embed"
    /\ LET vector == EmbedQuery(calls[t][Len(calls[t])].input)
       IN  /\ query_embedding' = [query_embedding EXCEPT ![t] = <<vector>>]
           /\ calls' = [calls EXCEPT ![t] = Append(@,
                            [service |-> "search", input |-> vector])]
    /\ pc' = [pc EXCEPT ![t] = "search"]
    /\ UNCHANGED <<dbvars, human_message, chat, conversation, query_result,
                   system_message, generated, result, error, session, response,
                   chatreqvars>>

\* chat_handler.py lines 75-92: the search answers, the prompt is built, the
\* human message is appended to the conversation and the conversation is
\* formatted; the chat model is invoked unless a message was rejected
SearchReturns(t) ==
    /\ pc[t] = "search"
    /\ \E hits \in HitLists :
         LET built == prompt(MilvusSearch(hits, threshold))
             formatted == UpdateConversation(conversation[t], human_message[t][1], built)
             rejected == \E i \in DOMAIN formatted : formatted[i].type = "ValueError"
         IN  /\ Len(hits) <= topk
             /\ query_result' = [query_result EXCEPT ![t] = <<hits>>]
             /\ system_message' = [system_message EXCEPT ![t] = <<built>>]
             /\ conversation' = [conversation EXCEPT ![t] =
                                     Append(@, human_message[t][1])]
             /\ IF rejected
                THEN /\ error' = [error EXCEPT ![t] = <<"ValueError">>]
                     /\ pc' = [pc EXCEPT ![t] = "raise"]
                     /\ UNCHANGED calls
                ELSE /\ calls' = [calls EXCEPT ![t] = Append(@,
                                     [service |-> "generate", input |-> formatted])]
                     /\ pc' = [pc EXCEPT ![t] = "generate"]
                     /\ UNCHANGED error
    /\ UNCHANGED <<dbvars, human_message, chat, query_embedding, generated,
                   result, session, response, chatreqvars>>

\* variant: the handler remembers how many turns it has handled and adds
\* that number to the counter it returns
InvokeReturnsRemembering(t) ==
    /\ pc[t] = "generate"
    /\ \E content \in GenOutputs :
         LET handled == Cardinality({u \in Turns : pc[u] \in {"failed", "done"}})
             off_topic_response_count == chat[t][1].off_topic_response_count + handled
         IN  /\ generated' = [generated EXCEPT ![t] = <<content>>]
             /\ result' = [result EXCEPT ![t] =
                    IF IsRefusal(content)
                    THEN <<HandleChatResult(system_message[t],
                                off_topic_response(off_topic_response_count + 1),
                                off_topic_response_count + 1)>>
                    ELSE <<HandleChatResult(system_message[t], content,
                                off_topic_response_count)>>]
    /\ pc' = [pc EXCEPT ![t] = "returned"]
    /\ UNCHANGED <<dbvars, human_message, chat, conversation, query_embedding,
                   query_result, system_message, calls, error, session, response,
                   chatreqvars>>

\* chat_handler.py lines 93-115: the chat model answers
InvokeReturns(t) ==
    /\ pc[t] = "generate"
    /\ \E content \in GenOutputs :
         LET off_topic_response_count == chat[t][1].off_topic_response_count
         IN  /\ generated' = [generated EXCEPT ![t] = <<content>>]
             /\ result' = [result EXCEPT ![t] =
                    IF IsRefusal(content)
                    THEN <<HandleChatResult(system_message[t],
                                off_topic_response(off_topic_response_count + 1),
                                off_topic_response_count + 1)>>
                    ELSE <<HandleChatResult(system_message[t], content,
                                off_topic_response_count)>>]
    /\ pc' = [pc EXCEPT ![t] = "returned"]
    /\ UNCHANGED <<dbvars, human_message, chat, conversation, query_embedding, query_result,
                   system_message, calls, error, session, response, chatreqvars>>

\* variant: a failed upstream call is issued again before the failure is let out
UpstreamFailsRetried(t) ==
    /\ pc[t] \in {"embed", "search", "generate"}
    /\ IF Len(calls[t]) < 4
       THEN /\ calls' = [calls EXCEPT ![t] = Append(@, calls[t][Len(calls[t])])]
            /\ UNCHANGED <<error, pc>>
       ELSE /\ error' = [error EXCEPT ![t] = <<pc[t]>>]
            /\ pc' = [pc EXCEPT ![t] = "raise"]
            /\ UNCHANGED calls
    /\ UNCHANGED <<dbvars, human_message, chat, conversation, query_embedding, query_result,
                   system_message, generated, result, session, response,
                   chatreqvars>>

\* an upstream call raises: nothing in handle_chat or create_message catches it
UpstreamFails(t) ==
    /\ pc[t] \in {"embed", "search", "generate"}
    /\ error' = [error EXCEPT ![t] = <<pc[t]>>]
    /\ pc' = [pc EXCEPT ![t] = "raise"]
    /\ UNCHANGED <<dbvars, human_message, chat, conversation, query_embedding, query_result,
                   system_message, calls, generated, result, session, response,
                   chatreqvars>>

\* views.py lines 126-161: the rows of the turn are built and executed in the
\* session, the chat row is upserted when the counter changed, and the AI
\* message is returned.  The first read of the returned dict (line 127)
\* decides whether any of it happens.
CreateMessagePersist(t) ==
    /\ pc[t] = "returned"
    /\ LET ai_response == result[t][1]
           chat_id == human_message[t][1].chat_id
           read_system == ResultAttribute(ai_response, "system_message")
           read_ai == ResultAttribute(ai_response, "ai_message")
           read_count == ResultAttribute(ai_response, "off_topic_response_count")
       IN  IF read_system.raised # ""
           THEN /\ error' = [error EXCEPT ![t] = <<read_system.raised>>]
                /\ pc' = [pc EXCEPT ![t] = "raise"]
                /\ UNCHANGED <<now, next_id, session>>
           ELSE \E later \in {now, now + 1} :
                LET truthy == /\ read_system.value # <<>>
                              /\ read_system.value[1] # <<>>
                    system_rows ==
                        IF truthy
                        THEN <<MessageModel(MessageDTO(next_id, chat_id,
                                      read_system.value[1], SYSTEM, now))>>
                        ELSE <<>>
                    ai_row == MessageModel(MessageDTO(next_id + Len(system_rows), chat_id,
                                      read_ai.value, AI, later))
                    rows == <<MessageModel(human_message[t][1])>> \o system_rows \o <<ai_row>>
                    added == AddManyOnConflictDoNothing(session[t], rows)
                IN  /\ session' = [session EXCEPT ![t] =
                          IF read_count.value # chat[t][1].off_topic_response_count
                          THEN AddSingleOnConflictDoUpdate(added, chat_id,
                                   [chat[t][1] EXCEPT !.off_topic_response_count =
                                                          read_count.value])
                          ELSE added]
                    /\ now' = later
                    /\ next_id' = next_id + Len(system_rows) + 2
                    /\ pc' = [pc EXCEPT ![t] = "respond"]
                    /\ UNCHANGED error
    /\ UNCHANGED <<chats, messages, human_message, chat, conversation, query_embedding, query_result,
                   system_message, calls, generated, result, response, chatreqvars>>

\* db/dependencies.py lines 32-36: the endpoint is left, by its return or by
\* an exception; the session is committed and closed and the client gets the
\* AI message or a failure.  The locals of the request die with it.
GetDbSessionFinally(t) ==
    /\ pc[t] \in {"raise", "respond"}
    /\ chats' = VisibleChats(chats, session[t])
    /\ messages' = CommittedMessages(messages, session[t])
    /\ session' = [session EXCEPT ![t] = <<>>]
    /\ pc' = [pc EXCEPT ![t] = IF pc[t] = "raise" THEN "failed" ELSE "done"]
    /\ response' = [response EXCEPT ![t] =
           IF pc[t] = "raise"
           THEN <<[status |-> 500, message_text |-> <<>>]>>
           ELSE <<[status |-> 200,
                   message_text |-> ResultAttribute(result[t][1], "ai_message").value]>>]
    /\ human_message' = [human_message EXCEPT ![t] = <<>>]
    /\ chat' = [chat EXCEPT ![t] = <<>>]
    /\ conversation' = [conversation EXCEPT ![t] = <<>>]
    /\ query_embedding' = [query_embedding EXCEPT ![t] = <<>>]
    /\ query_result' = [query_result EXCEPT ![t] = <<>>]
    /\ system_message' = [system_message EXCEPT ![t] = <<>>]
    /\ calls' = [calls EXCEPT ![t] = <<>>]
    /\ generated' = [generated EXCEPT ![t] = <<>>]
    /\ result' = [result EXCEPT ![t] = <<>>]
    /\ error' = [error EXCEPT ![t] = <<>>]
    /\ UNCHANGED <<now, next_id, chatreqvars>>

\* --------------------------------------------------- POST /chat, step by step
\* off_topic_response_count of a posted ChatDTO (0 when the field is left out)
PostedCounts == {0, 3}

\* the request arrives: FastAPI parses the ChatDTO and opens the session
CreateChat(r) ==
    /\ cpc[r] = "idle"
    /\ \A o \in ChatRequests : o < r => cpc[o] # "idle"
    /\ \E chat_id \in ChatIds, count \in PostedCounts :
         chat_dto' = [chat_dto EXCEPT ![r] =
                         <<[chat_id |-> chat_id, off_topic_response_count |-> count,
                            created_at |-> now]>>]
    /\ cpc' = [cpc EXCEPT ![r] = "add_chat"]
    /\ UNCHANGED <<dbvars, turnvars, csession>>

\* chat/views.py lines 85-87; the INSERT waits while another open session
\* holds an uncommitted row with the same chat_id
CreateChatAddChat(r) ==
    /\ cpc[r] = "add_chat"
    /\ \A o \in ChatRequests \ {r} :
         chat_dto[r][1].chat_id \notin DOMAIN VisibleChats(<<>>, csession[o])
    /\ csession' = [csession EXCEPT ![r] =
           AddSingleOnConflictDoNothing(@, chat_dto[r][1].chat_id, ChatModel(chat_dto[r][1]))]
    /\ cpc' = [cpc EXCEPT ![r] = "add_messages"]
    /\ UNCHANGED <<dbvars, turnvars, chat_dto>>

\* chat/views.py lines 90-105: the two seed messages are built and executed
CreateChatAddMessages(r) ==
    /\ cpc[r] = "add_messages"
    /\ \E later \in {now, now + 1} :
         LET chat_id == chat_dto[r][1].chat_id
             rows == << MessageModel(MessageDTO(next_id, chat_id,
                                         prompt(general_context), SYSTEM, now)),
                        MessageModel(MessageDTO(next_id + 1, chat_id,
                                         ai_first_message, AI, later)) >>
         IN  /\ csession' = [csession EXCEPT ![r] = AddManyOnConflictDoNothing(@, rows)]
             /\ now' = later
    /\ next_id' = next_id + 2
    /\ cpc' = [cpc EXCEPT ![r] = "respond"]
    /\ UNCHANGED <<chats, messages, turnvars, chat_dto>>

\* db/dependencies.py lines 32-36 for a create_chat request
GetDbSessionFinallyChat(r) ==
    /\ cpc[r] = "respond"
    /\ chats' = VisibleChats(chats, csession[r])
    /\ messages' = CommittedMessages(messages, csession[r])
    /\ csession' = [csession EXCEPT ![r] = <<>>]
    /\ cpc' = [cpc EXCEPT ![r] = "done"]
    /\ chat_dto' = [chat_dto EXCEPT ![r] = <<>>]
    /\ UNCHANGED <<now, next_id, turnvars>>

\* ------------------------------------------------------------ specifications
Next ==
    \/ \E t \in Turns : CreateMessage(t)
    \/ \E t \in Turns : CreateMessageGetChat(t)
    \/ \E t \in Turns : CreateMessageGetConversation(t)
    \/ \E t \in Turns : HandleChat(t)
    \/ \E t \in Turns : EmbedQueryReturns(t)
    \/ \E t \in Turns : SearchReturns(t)
    \/ \E t \in Turns : InvokeReturns(t)
    \/ \E t \in Turns : UpstreamFails(t)
    \/ \E t \in Turns : CreateMessagePersist(t)
    \/ \E t \in Turns : GetDbSessionFinally(t)
    \/ \E r \in ChatRequests : CreateChat(r)
    \/ \E r \in ChatRequests : CreateChatAddChat(r)
    \/ \E r \in ChatRequests : CreateChatAddMessages(r)
    \/ \E r \in ChatRequests : GetDbSessionFinallyChat(r)

Spec == InitOpen /\ [][Next]_vars

\* no request is between its arrival and its response
Quiescent ==
    /\ \A t \in Turns : pc[t] \in {"idle", "done", "failed"}
    /\ \A r \in ChatRequests : cpc[r] \in {"idle", "done"}

\* requests are handled one after the other
SerialNext ==
    \/ Quiescent /\ \E t \in Turns : CreateMessage(t)
    \/ \E t \in Turns : CreateMessageGetChat(t)
    \/ \E t \in Turns : CreateMessageGetConversation(t)
    \/ \E t \in Turns : HandleChat(t)
    \/ \E t \in Turns : EmbedQueryReturns(t)
    \/ \E t \in Turns : SearchReturns(t)
    \/ \E t \in Turns : InvokeReturns(t)
    \/ \E t \in Turns : UpstreamFails(t)
    \/ \E t \in Turns : CreateMessagePersist(t)
    \/ \E t \in Turns : GetDbSessionFinally(t)
    \/ Quiescent /\ \E r \in ChatRequests : CreateChat(r)
    \/ \E r \in ChatRequests : CreateChatAddChat(r)
    \/ \E r \in ChatRequests : CreateChatAddMessages(r)
    \/ \E r \in ChatRequests : GetDbSessionFinallyChat(r)

SerialSpec == Init /\ [][SerialNext]_vars

\* ------------------------------------------- ChatHandler.handle_chat alone
\* handle_chat called with arguments of its declared types: a list of
\* MessageDTO, a MessageDTO and an int.  message_by of a listed message is any
\* of the three origins or a value outside them.
MaxHistory == 2

HandlerOrigins == {HUMAN, AI, SYSTEM, "tool"}

RECURSIVE HistoriesOfLength(_)
HistoriesOfLength(n) ==
    IF n = 0 THEN {<<>>}
    ELSE {Append(h, MessageDTO(n, "c1", <<"m">>, by, n)) :
              h \in HistoriesOfLength(n - 1), by \in HandlerOrigins}

HandlerHistories == UNION {HistoriesOfLength(n) : n \in 0..MaxHistory}

HandlerInit ==
    /\ \E count \in InitCounts :
         LET row == [off_topic_response_count |-> count, created_at |-> 0]
         IN  /\ chats = ("c1" :> row)
             /\ chat = [t \in Turns |-> IF t = 1 THEN <<row>> ELSE <<>>]
    /\ messages = SeededMessages("c1", 1)
    /\ now = MaxHistory + 1
    /\ next_id = MaxHistory + 2
    /\ \E history \in HandlerHistories :
         conversation = [t \in Turns |-> IF t = 1 THEN history ELSE <<>>]
    /\ \E by \in {HUMAN, AI, SYSTEM}, text \in HumanTexts :
         human_message = [t \in Turns |->
             IF t = 1
             THEN <<MessageDTO(MaxHistory + 1, "c1", text, by, MaxHistory + 1)>>
             ELSE <<>>]
    /\ pc = [t \in Turns |-> IF t = 1 THEN "handle_chat" ELSE "idle"]
    /\ query_embedding = [t \in Turns |-> <<>>]
    /\ query_result = [t \in Turns |-> <<>>]
    /\ system_message = [t \in Turns |-> <<>>]
    /\ calls = [t \in Turns |-> <<>>]
    /\ generated = [t \in Turns |-> <<>>]
    /\ result = [t \in Turns |-> <<>>]
    /\ response = [t \in Turns |-> <<>>]
    /\ error = [t \in Turns |-> <<>>]
    /\ session = [t \in Turns |-> <<>>]
    /\ cpc = [r \in ChatRequests |-> "idle"]
    /\ chat_dto = [r \in ChatRequests |-> <<>>]
    /\ csession = [r \in ChatRequests |-> <<>>]

HandlerNext ==
    \/ \E t \in Turns : HandleChat(t)
    \/ \E t \in Turns : EmbedQueryReturns(t)
    \/ \E t \in Turns : SearchReturns(t)
    \/ \E t \in Turns : InvokeReturns(t)
    \/ \E t \in Turns : UpstreamFails(t)

HandlerSpec == HandlerInit /\ [][HandlerNext]_vars

\* ------------------------------------------------- one worker's event loop
\* The requests of one worker are coroutines on a single event loop.
\* create_message and create_chat give the loop back at every await (the
\* database calls); handle_chat is awaited but holds no await itself, and
\* its embedding, search and generation calls are plain blocking calls: from
\* the first of them until handle_chat returns or raises, the loop runs
\* nothing else.
Blocking == {"embed", "search", "generate"}

\* no other request of the worker is inside a blocking call
LoopFreeFor(t) == \A u \in Turns \ {t} : pc[u] \notin Blocking

\* no request of the worker is inside a blocking call
LoopFree == \A u \in Turns : pc[u] \notin Blocking

WorkerNext ==
    \/ \E t \in Turns : LoopFreeFor(t) /\ CreateMessage(t)
    \/ \E t \in Turns : LoopFreeFor(t) /\ CreateMessageGetChat(t)
    \/ \E t \in Turns : LoopFreeFor(t) /\ CreateMessageGetConversation(t)
    \/ \E t \in Turns : LoopFreeFor(t) /\ HandleChat(t)
    \/ \E t \in Turns : LoopFreeFor(t) /\ EmbedQueryReturns(t)
    \/ \E t \in Turns : LoopFreeFor(t) /\ SearchReturns(t)
    \/ \E t \in Turns : LoopFreeFor(t) /\ InvokeReturns(t)
    \/ \E t \in Turns : LoopFreeFor(t) /\ UpstreamFails(t)
    \/ \E t \in Turns : LoopFreeFor(t) /\ CreateMessagePersist(t)
    \/ \E t \in Turns : LoopFreeFor(t) /\ GetDbSessionFinally(t)
    \/ \E r \in ChatRequests : LoopFree /\ CreateChat(r)
    \/ \E r \in ChatRequests : LoopFree /\ CreateChatAddChat(r)
    \/ \E r \in ChatRequests : LoopFree /\ CreateChatAddMessages(r)
    \/ \E r \in ChatRequests : LoopFree /\ GetDbSessionFinallyChat(r)

WorkerSpec == InitOpen /\ [][WorkerNext]_vars

\* =================================================================== claims
\* the row read for the turn, and the counter handed to handle_chat
CounterRead(t) == chat[t][1].off_topic_response_count

\* the turn has called handle_chat and handle_chat has returned
Returned(t) == pc[t] = "returned" /\ result[t] # <<>>

\* t takes the step that runs handle_chat from its entry
EntersHandleChat(t) == pc[t] = "handle_chat" /\ pc'[t] # "handle_chat" /\ chat[t] # <<>>

\* "null" occurs in the text, each letter in either case
HasSentinelAnyCase(text) ==
    \E i \in 1..(Len(text) - 3) :
        /\ text[i] \in {"n", "N"}
        /\ text[i + 1] \in {"u", "U"}
        /\ text[i + 2] \in {"l", "L"}
        /\ text[i + 3] \in {"l", "L"}

\* C1: handle_chat entered with a history of more than 30 messages returns at
\* once, with the length-limit message as AI text, no system message and the
\* counter it was given, whatever that counter and the human message are, and
\* it has issued no upstream call.
C1_LengthLimit ==
    [][\A t \in Turns :
          (EntersHandleChat(t) /\ Len(conversation[t]) > 30) =>
              /\ pc'[t] = "returned"
              /\ result'[t] = <<[system_message |-> <<>>,
                                 ai_message |-> limit_length_message,
                                 off_topic_response_count |-> CounterRead(t)]>>
              /\ calls'[t] = <<>>]_vars

\* C1 witness: a length-limited return for a chat whose counter is 3 or more
C1_Witness ==
    \E t \in Turns :
        /\ Returned(t)
        /\ Len(conversation[t]) > 30
        /\ CounterRead(t) >= 3
        /\ result[t][1].ai_message = limit_length_message

\* C2: handle_chat entered with a counter of 3 or more and a history of at
\* most 30 messages returns at once, with the off-topic-exhausted message, no
\* system message and the counter unchanged, and has issued no upstream call.
C2_OffTopicExhausted ==
    [][\A t \in Turns :
          (EntersHandleChat(t) /\ CounterRead(t) >= 3 /\ Len(conversation[t]) <= 30) =>
              /\ pc'[t] = "returned"
              /\ result'[t] = <<[system_message |-> <<>>,
                                 ai_message |-> limit_out_of_topic_message,
                                 off_topic_response_count |-> CounterRead(t)]>>
              /\ calls'[t] = <<>>]_vars

\* C2 witness: an off-topic-exhausted return for a counter of exactly 3
C2_Witness ==
    \E t \in Turns :
        /\ Returned(t)
        /\ Len(conversation[t]) <= 30
        /\ CounterRead(t) = 3
        /\ calls[t] = <<>>
        /\ result[t][1].ai_message = limit_out_of_topic_message

\* C3: when the generation output contains "null" in any letter case,
\* handle_chat returns the counter it was given plus one and the warning
\* template filled with that new value, never the generation output itself.
C3_RefusalCounted ==
    \A t \in Turns :
        (Returned(t) /\ generated[t] # <<>> /\ HasSentinelAnyCase(generated[t][1])) =>
            /\ result[t][1].off_topic_response_count = CounterRead(t) + 1
            /\ result[t][1].ai_message =
                   <<"off_topic_response_1", ToString(CounterRead(t) + 1),
                     "off_topic_response_2">>
            /\ result[t][1].ai_message # generated[t][1]

\* C3 witness: a refusal in mixed case, embedded in other text, was replaced
C3_Witness ==
    \E t \in Turns :
        /\ Returned(t)
        /\ generated[t] = << <<"a", "N", "U", "L", "l">> >>
        /\ result[t][1].off_topic_response_count = CounterRead(t) + 1

Services(t) == [i \in DOMAIN calls[t] |-> calls[t][i].service]

\* the calls of a turn are embed, search, generate, each at most once and in
\* that order; the embedding is asked for the human text with its newlines
\* turned into spaces, the search is given that embedding, and generation is
\* called only once the search has answered and the prompt is built
CallsInOrder(t) ==
    /\ \E n \in 0..3 : Services(t) = SubSeq(<<"embed", "search", "generate">>, 1, n)
    /\ Len(calls[t]) >= 1 =>
           LET text == human_message[t][1].message_text
           IN  calls[t][1].input =
                   [i \in DOMAIN text |-> IF text[i] = "\n" THEN " " ELSE text[i]]
    /\ Len(calls[t]) >= 2 => calls[t][2].input = [embedding_of |-> calls[t][1].input]
    /\ Len(calls[t]) >= 3 => system_message[t] # <<>>
    /\ (pc[t] = "returned" /\ generated[t] # <<>>) => Len(calls[t]) = 3

\* C5: a turn entered with a counter below 3 and a history of at most 30
\* messages starts the retrieve-and-generate path, and on that path embedding,
\* search and generation are called once each, in this order, the search with
\* the embedding of this turn's human message.
C5_CallsOnceInOrder ==
    [][\A t \in Turns :
          /\ (EntersHandleChat(t) /\ CounterRead(t) < 3 /\ Len(conversation[t]) <= 30) =>
                 (pc'[t] = "embed" /\ Len(calls'[t]) = 1)
          /\ CallsInOrder(t)']_vars

\* C5 witness: handle_chat returned after exactly the three calls, for a human
\* text that holds a newline
C5_Witness ==
    \E t \in Turns :
        /\ Returned(t)
        /\ Services(t) = <<"embed", "search", "generate">>
        /\ human_message[t][1].message_text = <<"h", "\n", "i">>
        /\ calls[t][2].input = [embedding_of |-> <<"h", " ", "i">>]

\* the stored counter of a chat
Stored(chat_id) == chats[chat_id].off_topic_response_count

\* t takes the step that ends its request: the session is committed and the
\* client is answered
Ends(t) == pc[t] \in {"raise", "respond"} /\ pc'[t] \in {"failed", "done"}

\* handle_chat detected a refusal in this turn's generation output
DetectedRefusal(t) ==
    /\ result[t] # <<>>
    /\ generated[t] # <<>>
    /\ HasSentinelAnyCase(generated[t][1])

\* C6: with serialized turns the stored counter never decreases, and a turn
\* leaves it one higher when its generation output was detected as a refusal
\* and unchanged otherwise.
C6_CounterCountsRefusals ==
    [][/\ \A c \in DOMAIN chats :
              c \in DOMAIN chats' /\ chats'[c].off_topic_response_count >= Stored(c)
       /\ \A t \in Turns :
              (Ends(t) /\ chat[t] # <<>>) =>
                  chats'[human_message[t][1].chat_id].off_topic_response_count =
                      Stored(human_message[t][1].chat_id)
                          + (IF DetectedRefusal(t) THEN 1 ELSE 0)]_vars

\* C7: a turn that finds the stored counter at 3 makes no upstream call, is
\* answered with one of the two fixed termination messages, and leaves the
\* chat row in place with its counter at 3.
C7_TerminationIsPermanent ==
    [][\A t \in Turns :
          (Ends(t) /\ chat[t] # <<>> /\ CounterRead(t) = 3) =>
              /\ calls[t] = <<>>
              /\ response'[t] \in
                     {<<[status |-> 200, message_text |-> limit_out_of_topic_message]>>,
                      <<[status |-> 200, message_text |-> limit_length_message]>>}
              /\ human_message[t][1].chat_id \in DOMAIN chats'
              /\ chats'[human_message[t][1].chat_id].off_topic_response_count = 3]_vars

\* C9: two overlapping turns on one chat that read the same counter value v
\* and both detect a refusal leave the stored counter at v + 1: it is v + 1
\* when the first of them ends, and still v + 1 when the second ends.
C9_RaceLosesOneIncrement ==
    [][\A t \in Turns :
          LET chat_id == human_message[t][1].chat_id
          IN  (Ends(t) /\ chat[t] # <<>> /\ DetectedRefusal(t)) =>
                  /\ (\E u \in Turns \ {t} :
                          /\ chat[u] # <<>>
                          /\ human_message[u][1].chat_id = chat_id
                          /\ CounterRead(u) = CounterRead(t)
                          /\ DetectedRefusal(u)) =>
                         chats'[chat_id].off_topic_response_count = CounterRead(t) + 1
                  /\ Stored(chat_id) = CounterRead(t) + 1 =>
                         chats'[chat_id].off_topic_response_count = CounterRead(t) + 1]_vars

\* the exception comes from one of the three upstream calls
UpstreamError(e) == e # <<>> /\ e[1] \in {"embed", "search", "generate"}

\* every stored human message is followed by a stored AI message of its chat
NoOrphanHuman(rows) ==
    \A i \in DOMAIN rows :
        rows[i].message_by = "human" =>
            \E j \in DOMAIN rows :
                j > i /\ rows[j].message_by = "ai" /\ rows[j].chat_id = rows[i].chat_id

\* C10: when an upstream call fails, the turn holds no uncommitted row, the
\* step that ends the request answers the client with a failure and leaves
\* both tables as they were, and no human message is stored without an AI
\* message.
C10_FailedTurnPersistsNothing ==
    [][\A t \in Turns :
          /\ (pc'[t] # pc[t] /\ UpstreamError(error'[t])) =>
                 /\ pc'[t] = "raise"
                 /\ session'[t] = <<>>
                 /\ messages' = messages /\ chats' = chats
          /\ (pc'[t] # pc[t] /\ UpstreamError(error[t])) =>
                 /\ pc'[t] = "failed"
                 /\ response'[t] = <<[status |-> 500, message_text |-> <<>>]>>
                 /\ messages' = messages /\ chats' = chats
          /\ NoOrphanHuman(messages')]_vars

\* C10 witness: the generation call of a turn failed, after the embedding
\* and the search had answered
C10_Witness ==
    \E t \in Turns :
        /\ pc[t] = "raise"
        /\ error[t] = <<"generate">>
        /\ Services(t) = <<"embed", "search", "generate">>
        /\ session[t] = <<>>

\* C11: no upstream service is called twice in a turn; the step on which an
\* upstream call fails issues no call and leaves handle_chat without a result;
\* from then on the turn issues no further call, the failure stays in flight
\* until the request ends, and handle_chat never returns a result for it.
C11_NoCatchNoRetry ==
    [][\A t \in Turns :
          /\ \A i, j \in DOMAIN calls'[t] :
                 calls'[t][i].service = calls'[t][j].service => i = j
          /\ (pc[t] \in {"embed", "search", "generate"} /\ UpstreamError(error'[t])) =>
                 /\ pc'[t] = "raise"
                 /\ calls'[t] = calls[t]
                 /\ result'[t] = <<>>
          /\ UpstreamError(error[t]) =>
                 /\ result[t] = <<>> /\ result'[t] = <<>>
                 /\ \/ calls'[t] = calls[t] /\ error'[t] = error[t]
                    \/ pc'[t] = "failed" /\ calls'[t] = <<>>]_vars

\* C11 witness: the embedding call of a turn failed; it is the only call of
\* the turn and handle_chat has no result
C11_Witness ==
    \E t \in Turns :
        /\ pc[t] = "raise"
        /\ error[t] = <<"embed">>
        /\ Services(t) = <<"embed">>
        /\ result[t] = <<>>

\* the rows a step adds to table messages
Appended == SubSeq(messages', Len(messages) + 1, Len(messages'))

\* how many of the rows come from the given origin
CountBy(rows, message_by) ==
    Cardinality({i \in DOMAIN rows : rows[i].message_by = message_by})

\* C12: a turn for which handle_chat returned ends normally and its end adds
\* to the chat one human message (the posted one) and one AI message (the text
\* handle_chat returned), and one system message holding the built prompt
\* exactly when the turn built one; a turn ended by the length or off-topic
\* limit adds the human message and the termination message only.
C12_TurnAppends ==
    [][\A t \in Turns :
          (Ends(t) /\ result[t] # <<>>) =>
              LET built == system_message[t] # <<>>
              IN  /\ pc'[t] = "done"
                  /\ Len(messages') >= Len(messages)
                  /\ SubSeq(messages', 1, Len(messages)) = messages
                  /\ \A i \in DOMAIN Appended :
                         Appended[i].chat_id = human_message[t][1].chat_id
                  /\ CountBy(Appended, "human") = 1
                  /\ CountBy(Appended, "ai") = 1
                  /\ CountBy(Appended, "system") = (IF built THEN 1 ELSE 0)
                  /\ Len(Appended) = (IF built THEN 3 ELSE 2)
                  /\ \A i \in DOMAIN Appended :
                         Appended[i].message_text =
                             CASE Appended[i].message_by = "human" ->
                                      human_message[t][1].message_text
                               [] Appended[i].message_by = "ai" ->
                                      result[t][1].ai_message
                               [] OTHER -> system_message[t][1]]_vars

\* r takes the step that ends its create_chat request
EndsChat(r) == cpc[r] = "respond" /\ cpc'[r] = "done"

\* the origin and text of each row, in order
OriginAndText(rows) == [i \in DOMAIN rows |-> <<rows[i].message_by, rows[i].message_text>>]

\* C13: a create_chat request that creates a chat stores it with a counter of
\* 0 and adds exactly two messages to it: the system preamble, then the AI
\* greeting.
C13_NewChatSeeded ==
    [][\A r \in ChatRequests :
          EndsChat(r) =>
              \A c \in DOMAIN chats' \ DOMAIN chats :
                  /\ chats'[c].off_topic_response_count = 0
                  /\ SubSeq(messages', 1, Len(messages)) = messages
                  /\ \A i \in DOMAIN Appended : Appended[i].chat_id = c
                  /\ OriginAndText(Appended) =
                         << <<"system", <<"prompt", "general_context">> >>,
                            <<"ai", <<"ai_first_message">> >> >>]_vars

\* how many system preambles and how many AI greetings a chat holds
SeedCount(rows, chat_id) ==
    << Cardinality({i \in DOMAIN rows :
           /\ rows[i].chat_id = chat_id
           /\ rows[i].message_by = "system"
           /\ rows[i].message_text = <<"prompt", "general_context">>}),
       Cardinality({i \in DOMAIN rows :
           /\ rows[i].chat_id = chat_id
           /\ rows[i].message_by = "ai"
           /\ rows[i].message_text = <<"ai_first_message">>}) >>

\* C14: a chat is seeded once: no step takes a chat that holds one system
\* preamble and one AI greeting, or a chat that did not exist, to anything but
\* one preamble and one greeting, a create_chat request on an existing chat id
\* included.
C14_SeededOnce ==
    [][\A c \in DOMAIN chats' :
          (c \notin DOMAIN chats \/ SeedCount(messages, c) = <<1, 1>>) =>
              SeedCount(messages', c) = <<1, 1>>]_vars

\* where a stored row stands in insertion order
InsertionIndex(row) ==
    CHOOSE i \in DOMAIN messages : messages[i].message_id = row.message_id

\* the rows are in ascending created_at, rows with equal created_at in the
\* order in which they were inserted
CreationThenInsertionOrder(rows) ==
    \A i, j \in DOMAIN rows :
        i < j =>
            \/ rows[i].created_at < rows[j].created_at
            \/ /\ rows[i].created_at = rows[j].created_at
               /\ InsertionIndex(rows[i]) < InsertionIndex(rows[j])

\* t takes the step that reads the history of its chat
ReadsHistory(t) == pc[t] = "get_conversation" /\ pc'[t] = "handle_chat"

\* C15: the history read for a turn holds the human and AI messages of the
\* chat in ascending created_at, those with equal created_at in insertion
\* order, so that an unchanged chat always reads the same.
C15_HistoryOrder ==
    [][\A t \in Turns :
          ReadsHistory(t) =>
              /\ {conversation'[t][i] : i \in DOMAIN conversation'[t]} =
                     {messages[i] : i \in {j \in DOMAIN messages :
                          /\ messages[j].chat_id = human_message[t][1].chat_id
                          /\ messages[j].message_by \in {"human", "ai"}}}
              /\ CreationThenInsertionOrder(conversation'[t])]_vars

\* a row that carries the id of a stored row and another text
WithSameId(row) == [row EXCEPT !.message_text = <<"other">>]

OriginOf(type) ==
    CASE type = "HumanMessage" -> "human"
      [] type = "AIMessage" -> "ai"
      [] type = "SystemMessage" -> "system"
      [] OTHER -> "none"

\* the messages of the turn that were formatted for the chat model: the
\* conversation, which by then ends with the human message
Formatted(t) == conversation[t]

\* C17: in the list sent to the chat model every message of the conversation
\* stands at its place as a human (user), AI (assistant) or system message
\* according to its origin, with its text unchanged; the origin is recovered
\* from the formatted message, and messages of two different origins are
\* never formatted alike.
C17_RoleBijection ==
    \A t \in Turns :
        \A c \in DOMAIN calls[t] :
            calls[t][c].service = "generate" =>
                LET sent == calls[t][c].input
                IN  /\ Len(sent) = Len(Formatted(t)) + 1
                    /\ \A k \in DOMAIN Formatted(t) :
                           /\ sent[k].type =
                                  CASE Formatted(t)[k].message_by = "human" -> "HumanMessage"
                                    [] Formatted(t)[k].message_by = "ai" -> "AIMessage"
                                    [] Formatted(t)[k].message_by = "system" -> "SystemMessage"
                           /\ OriginOf(sent[k].type) = Formatted(t)[k].message_by
                           /\ sent[k].content = Formatted(t)[k].message_text
                    /\ \A k, l \in DOMAIN Formatted(t) :
                           sent[k].type = sent[l].type =>
                               Formatted(t)[k].message_by = Formatted(t)[l].message_by

\* C17 witness: a conversation holding a message of each of the three origins
\* was formatted and sent to the chat model
C17_Witness ==
    \E t \in Turns :
        /\ Services(t) = <<"embed", "search", "generate">>
        /\ {Formatted(t)[k].message_by : k \in DOMAIN Formatted(t)} = {"human", "ai", "system"}

\* the origin is one of the three known ones
KnownOrigin(by) == by \in {"human", "ai", "system"}

\* the turn has called the chat model
Generates(t) == \E c \in DOMAIN calls[t] : calls[t][c].service = "generate"

\* C18: a message whose origin is none of human, ai, system is not formatted
\* into a message but raises ValueError; when the search has answered for a
\* turn whose conversation holds such a message, the turn fails with that
\* error without calling the chat model, and no turn ever calls the chat model
\* with such a message in its conversation.
C18_UnknownOriginRejected ==
    [][\A t \in Turns :
          /\ \A k \in DOMAIN conversation[t] :
                 ~KnownOrigin(conversation[t][k].message_by) =>
                     FormatMessage(conversation[t][k]).type = "ValueError"
          /\ (/\ pc[t] = "search" /\ pc'[t] # "search"
              /\ ~UpstreamError(error'[t])
              /\ \E k \in DOMAIN conversation[t] :
                     ~KnownOrigin(conversation[t][k].message_by)) =>
                 /\ pc'[t] = "raise"
                 /\ error'[t] = <<"ValueError">>
                 /\ calls'[t] = calls[t]
                 /\ result'[t] = <<>>
          /\ Generates(t)' =>
                 \A k \in DOMAIN conversation'[t] :
                     KnownOrigin(conversation'[t][k].message_by)]_vars

\* C18 witness: a turn whose history holds a message of unknown origin failed
\* with ValueError after the embedding and the search, before any generation
C18_Witness ==
    \E t \in Turns :
        /\ pc[t] = "raise"
        /\ error[t] = <<"ValueError">>
        /\ Services(t) = <<"embed", "search">>
        /\ \E k \in DOMAIN conversation[t] : conversation[t][k].message_by = "tool"

\* the hits of the example: distances 0.9, 0.2, 1.6 with texts c, a, b
ExampleHits ==
    << [distance |-> 9, text |-> <<"c">>],
       [distance |-> 2, text |-> <<"a">>],
       [distance |-> 16, text |-> <<"b">>] >>

\* C19 as stated: for the example hits and threshold 1.7 the context put into
\* the prompt is "a\nb\nc\n".
C19_ExampleAsStated ==
    \A t \in Turns :
        query_result[t] = <<ExampleHits>> =>
            system_message[t] = << <<"prompt", "a", "\n", "b", "\n", "c", "\n">> >>

\* C19 amended: for the example hits and threshold 1.7 the context put into
\* the prompt is "a\nc\nb\n", the texts in ascending order of their distances
\* 0.2, 0.9, 1.6.
C19_ExampleContext ==
    \A t \in Turns :
        query_result[t] = <<ExampleHits>> =>
            system_message[t] = << <<"prompt", "a", "\n", "c", "\n", "b", "\n">> >>

\* C19 witness: the search of a turn answered the example hits and the prompt
\* was built from them
C19_Witness ==
    \E t \in Turns :
        /\ query_result[t] = <<ExampleHits>>
        /\ system_message[t] # <<>>
        /\ Len(system_message[t][1]) = 7

\* the hits whose distance is strictly below 1.7
Kept(hits) == {i \in DOMAIN hits : hits[i].distance < 17}

\* the kept hits, each once, in an order of ascending distance
AscendingOrders(hits) ==
    {order \in [1..Cardinality(Kept(hits)) -> Kept(hits)] :
        \A i, j \in DOMAIN order :
            i < j => /\ order[i] # order[j]
                     /\ hits[order[i]].distance <= hits[order[j]].distance}

\* the texts of the hits in the given order, each followed by a newline
RECURSIVE LinesOf(_, _)
LinesOf(order, hits) ==
    IF Len(order) = 0 THEN <<>>
    ELSE hits[order[1]].text \o <<"\n">>
         \o LinesOf([i \in 1..(Len(order) - 1) |-> order[i + 1]], hits)

ClassOf(by) ==
    CASE by = "human" -> "HumanMessage"
      [] by = "ai" -> "AIMessage"
      [] by = "system" -> "SystemMessage"

\* t takes the step on which the chat model is invoked
InvokesModel(t) == pc[t] = "search" /\ pc'[t] = "generate"

\* C21: the list handed to the chat model is the history handle_chat was
\* given, message by message in the same order, each as the message class of
\* its origin with its text, then the new human message, then the prompt just
\* built as a system message; it has two elements more than the history.
C21_GenerationInput ==
    [][\A t \in Turns :
          InvokesModel(t) =>
              LET history == conversation[t]
                  n == Len(history)
                  sent == calls'[t][Len(calls'[t])].input
              IN  /\ calls'[t][Len(calls'[t])].service = "generate"
                  /\ Len(sent) = n + 2
                  /\ \A k \in 1..n :
                         sent[k] = [type |-> ClassOf(history[k].message_by),
                                    content |-> history[k].message_text]
                  /\ sent[n + 1] = [type |-> ClassOf(human_message[t][1].message_by),
                                    content |-> human_message[t][1].message_text]
                  /\ sent[n + 2] = [type |-> "SystemMessage",
                                    content |-> system_message'[t][1]]]_vars

\* C21 witness: the chat model was invoked for a history of two messages of
\* different origins with a list of four
C21_Witness ==
    \E t \in Turns :
        /\ pc[t] = "generate"
        /\ Len(calls[t]) = 3
        /\ Len(calls[t][3].input) = 4
        /\ calls[t][3].input[1].type # calls[t][3].input[2].type
        /\ calls[t][3].input[4].type = "SystemMessage"

\* the value is a string: a finite sequence of characters, possibly empty
IsText(value) ==
    /\ DOMAIN value = 1..Len(value)
    /\ \A i \in DOMAIN value : value[i] \in STRING

\* C22: what handle_chat returns holds a system message exactly when the turn
\* went through retrieval and generation; it is then the prompt built in that
\* turn, also when the generation output was a refusal.  On the two terminal
\* paths the system message is null.  The AI text is a string in all cases.
C22_SystemMessageReturned ==
    \A t \in Turns :
        Returned(t) =>
            LET returned == result[t][1]
            IN  /\ (returned.system_message # <<>>) <=> (Len(calls[t]) = 3)
                /\ Len(calls[t]) = 3 =>
                       /\ returned.system_message = system_message[t]
                       /\ returned.system_message[1][1] = "prompt"
                /\ Len(calls[t]) = 0 =>
                       /\ returned.system_message = <<>>
                       /\ returned.ai_message \in
                              {<<"limit_length_message">>, <<"limit_out_of_topic_message">>}
                /\ Len(calls[t]) \in {0, 3}
                /\ IsText(returned.ai_message)

\* C22 witness: a turn whose generation output was a refusal returned the
\* warning together with the prompt it had built
C22_Witness ==
    \E t \in Turns :
        /\ Returned(t)
        /\ DetectedRefusal(t)
        /\ result[t][1].system_message # <<>>
        /\ result[t][1].ai_message[1] = "off_topic_response_1"

\* the history handle_chat was called with: on the generate path the human
\* message has been appended to the conversation since
HistoryLength(t) == Len(conversation[t]) - (IF Len(calls[t]) = 3 THEN 1 ELSE 0)

\* what handle_chat returns as a function of its three arguments and of the
\* answers of the upstream services alone
ReturnsFor(history_length, counter, hits, content, returned) ==
    IF history_length > 30
    THEN returned = [system_message |-> <<>>,
                     ai_message |-> <<"limit_length_message">>,
                     off_topic_response_count |-> counter]
    ELSE IF counter >= 3
    THEN returned = [system_message |-> <<>>,
                     ai_message |-> <<"limit_out_of_topic_message">>,
                     off_topic_response_count |-> counter]
    ELSE /\ hits # <<>> /\ content # <<>>
         /\ \E order \in AscendingOrders(hits[1]) :
                returned.system_message = << <<"prompt">> \o LinesOf(order, hits[1]) >>
         /\ IF HasSentinelAnyCase(content[1])
            THEN /\ returned.ai_message =
                        <<"off_topic_response_1", ToString(counter + 1), "off_topic_response_2">>
                 /\ returned.off_topic_response_count = counter + 1
            ELSE /\ returned.ai_message = content[1]
                 /\ returned.off_topic_response_count = counter

\* C23: what a handle_chat call returns is fixed by the history, the human
\* message and the counter it is given and by what embedding, search and
\* generation answer in that call; nothing of the turns handled before it, on
\* the same chat or another, enters the result, so two calls with equal
\* arguments and equal upstream answers return the same.
C23_NoStateBetweenTurns ==
    \A t \in Turns :
        Returned(t) =>
            ReturnsFor(HistoryLength(t), CounterRead(t), query_result[t],
                       generated[t], result[t][1])

\* C23 witness: handle_chat returned from the generate path in a turn that
\* followed an earlier, ended turn
C23_Witness ==
    \E t, u \in Turns :
        /\ u # t
        /\ pc[u] = "failed"
        /\ Returned(t)
        /\ Len(calls[t]) = 3
        /\ DetectedRefusal(t)

\* handle_chat is running for the turn, or has just returned
InHandleChat(t) == pc[t] \in {"handle_chat", "embed", "search", "generate"}

\* C24: handle_chat leaves the history list it was given as it was: during the
\* whole call, on each of the three paths, the list holds the same messages in
\* the same order, and no step of the call writes to the session or to a table.
C24_ArgumentsUnchanged ==
    [][\A t \in Turns :
          InHandleChat(t) =>
              /\ conversation'[t] = conversation[t]
              /\ human_message'[t] = human_message[t]
              /\ session'[t] = session[t]
              /\ messages' = messages
              /\ chats' = chats]_vars

\* the stored rows of a chat that come from one of the given origins
RowsOf(chat_id, origins) ==
    {i \in DOMAIN messages : /\ messages[i].chat_id = chat_id
                             /\ messages[i].message_by \in origins}

\* C25: the history read for a turn holds the human and AI messages of the
\* chat and none of its system messages, and a turn entering handle_chat with
\* exactly 30 messages of history and a counter below 3 is not length-limited:
\* it starts the retrieve-and-generate path.
C25_LengthLimitStrict ==
    [][\A t \in Turns :
          /\ ReadsHistory(t) =>
                 /\ Len(conversation'[t]) =
                        Cardinality(RowsOf(human_message[t][1].chat_id, {"human", "ai"}))
                 /\ \A k \in DOMAIN conversation'[t] :
                        conversation'[t][k].message_by # "system"
          /\ (EntersHandleChat(t) /\ Len(conversation[t]) = 30 /\ CounterRead(t) < 3) =>
                 /\ pc'[t] = "embed"
                 /\ result'[t] = <<>>]_vars

\* C25 witness: a turn on a chat that stores 30 AI messages and 30 system
\* messages has a history of 30 and is on the retrieve-and-generate path
C25_Witness ==
    \E t \in Turns :
        /\ pc[t] = "embed"
        /\ Len(conversation[t]) = 30
        /\ Cardinality(RowsOf(human_message[t][1].chat_id, {"system"})) = 30

\* the warning that states n out of 3
Warning(n) == <<"off_topic_response_1", ToString(n), "off_topic_response_2">>

\* C26: with serialized turns on a chat whose counter started at 0, a turn
\* with a detected refusal that finds n - 1 refusals stored answers the client
\* with the warning stating n and leaves n stored, so that the next refusal
\* states n + 1 (1, 2, 3 in turn); the off-topic-exhausted message is returned
\* only by a turn that finds 3 stored.
C26_WarningsCountUp ==
    [][\A t \in Turns :
          (Ends(t) /\ chat[t] # <<>> /\ CounterRead(t) <= 3) =>
              LET chat_id == human_message[t][1].chat_id
                  n == CounterRead(t) + 1
              IN  /\ DetectedRefusal(t) =>
                         /\ n \in 1..3
                         /\ response'[t] = <<[status |-> 200, message_text |-> Warning(n)]>>
                         /\ chats'[chat_id].off_topic_response_count = n
                  /\ (result[t] # <<>> /\
                      result[t][1].ai_message = <<"limit_out_of_topic_message">>) =>
                         CounterRead(t) = 3]_vars

\* the next step of a request that is between two awaits of create_message,
\* as the worker's event loop would run it
WorkerStep(u) ==
    LoopFreeFor(u) /\ (\/ CreateMessageGetChat(u)
                       \/ CreateMessageGetConversation(u)
                       \/ HandleChat(u)
                       \/ CreateMessagePersist(u)
                       \/ GetDbSessionFinally(u))

\* the request has a step of create_message to take
HasStep(u) == pc[u] \in {"get_chat", "get_conversation", "handle_chat",
                         "returned", "raise", "respond"}

\* C27: while a turn of a worker waits on its embedding, search or generation
\* call, another turn of the same worker that has a step to take can take it.
C27_UpstreamCallsOverlap ==
    \A t, u \in Turns :
        (t # u /\ pc[t] \in Blocking /\ HasStep(u)) => ENABLED WorkerStep(u)

\* two turns of the worker have an upstream call in flight at once
TwoCallsInFlight == \E t, u \in Turns : t # u /\ pc[t] \in Blocking /\ pc[u] \in Blocking

\* no state of a worker has two upstream calls in flight
NoTwoCallsInFlight == ~TwoCallsInFlight

\* how many human and AI messages the chat stores after the step
StoredHistoryAfter(chat_id) ==
    Cardinality({i \in DOMAIN messages' : /\ messages'[i].chat_id = chat_id
                                           /\ messages'[i].message_by \in {"human", "ai"}})

\* C29: with serialized turns, a turn for which handle_chat returned, by a
\* generated answer or by a termination message, leaves the chat with two more
\* human and AI messages than the history it was supplied, so that on a chat
\* seeded once the k-th turn is supplied 2k - 1 messages and the 16th turn is
\* the first to be length-limited.
C29_HistoryGrowsByTwo ==
    [][\A t \in Turns :
          (Ends(t) /\ result[t] # <<>>) =>
              StoredHistoryAfter(human_message[t][1].chat_id) = HistoryLength(t) + 2]_vars

\* C30: a turn for which handle_chat returned writes the chat row only when
\* the returned counter differs from the counter it read; when they are equal
\* (no refusal detected, or the turn was ended by the length or off-topic
\* limit) the turn ends leaving every chat row as it was, counter and
\* created_at, and its only effect is to append messages to its chat.
C30_ChatRowWrittenOnChangeOnly ==
    [][\A t \in Turns :
          (Ends(t) /\ result[t] # <<>>) =>
              LET returned == result[t][1].off_topic_response_count
                  chat_id == human_message[t][1].chat_id
              IN  /\ (\E i \in DOMAIN session[t] : session[t][i].table = "chats")
                         => returned # CounterRead(t)
                  /\ (returned = CounterRead(t)) =>
                         /\ chats' = chats
                         /\ Len(messages') > Len(messages)
                         /\ SubSeq(messages', 1, Len(messages)) = messages
                         /\ \A i \in DOMAIN Appended : Appended[i].chat_id = chat_id]_vars

====
